---- MODULE Spec2Model ----
(***************************************************************************)
(* Embedded circular doubly linked list (ELIST2) and its iterator          *)
(* (ELIST2_ITERATOR), src/src/ccutil/elst2.cpp.                            *)
(*                                                                         *)
(* Nodes are addresses 1..MaxNodes, NULL is nullptr.  nxt/prv are the      *)
(* next/prev fields of every ELIST2_LINK, last is the one field of every   *)
(* ELIST2, it holds the fields of every ELIST2_ITERATOR.  A fatal          *)
(* ERRCODE::error(..., ABORT, ...) is recorded in err and stops the        *)
(* program.  Every member function is an operator from a program state     *)
(* (a record with the fields nxt, prv, last, it, err) to the program state *)
(* on return; an action applies one call.  log is what the caller's code   *)
(* has been handed: the nodes given to the callback of clear, or to the    *)
(* body of a traversal loop, in the order of the calls.                    *)
(*                                                                         *)
(* The inline members of elst2.h (set_to_list, mark_cycle_pt, cycled_list, *)
(* at_first, at_last, extract, the add_ members), which elst2.cpp calls,   *)
(* are modelled from their description in the specification.  The checks   *)
(* under "#ifndef NDEBUG" are modelled as compiled in; where a build       *)
(* without them would go on to dereference nullptr, both builds stop.      *)
(***************************************************************************)
EXTENDS Integers, Sequences, FiniteSets, TLC

VARIABLES nxt, prv, last, it, key, err, op, calls, log

vars == <<nxt, prv, last, it, key, err, op, calls, log>>

\* ---------------------------------------------------------------- bounds
MaxNodes == 4
MaxKey == 3
MaxOps == 2

\* ---------------------------------------------------------------- universe
NULL == 0
Nodes == 1..MaxNodes
Ptr == Nodes \cup {NULL}
SRC == "L1"
DST == "L2"
Lists == {SRC, DST}
TMP == "tmp"
LEN == "len"
Cursors == {"a", "b", "c"}
AllCursors == Cursors \cup {TMP, LEN}
OK == "OK"
NONE == "-"

\* The program state as one record.
World == [nxt |-> nxt, prv |-> prv, last |-> last, it |-> it, err |-> err]

\* ERRCODE::error(caller, ABORT, ...): the process stops.
Abort(S, code) == IF S.err = OK THEN [S EXCEPT !.err = code] ELSE S

SetIt(S, c, i) == [S EXCEPT !.it[c] = i]

\* A sequence of pointer stores "p->next = v" / "p->prev = v", executed in
\* program order.  A store through nullptr is undefined behaviour: the
\* builds fault on it.
RECURSIVE Stores(_, _, _)
Stores(S, ws, k) ==
  IF k > Len(ws) \/ S.err # OK THEN S
  ELSE LET w == ws[k] IN
       IF w[2] = NULL THEN Abort(S, "NULL_DEREF")
       ELSE IF w[1] = "next"
            THEN Stores([S EXCEPT !.nxt[w[2]] = w[3]], ws, k + 1)
            ELSE Stores([S EXCEPT !.prv[w[2]] = w[3]], ws, k + 1)

\* ---------------------------------------------------------------- ELIST2 (elst2.h)
empty(S, L) == S.last[L] = NULL

singleton(S, L) == S.last[L] # NULL /\ S.last[L] = S.nxt[S.last[L]]

First(S, L) == IF S.last[L] # NULL THEN S.nxt[S.last[L]] ELSE NULL

\* ---------------------------------------------------------------- ELIST2_ITERATOR (elst2.h)
NoIt ==
  [list |-> SRC, prev |-> NULL, current |-> NULL, next |-> NULL,
   cycle_pt |-> NULL, ex_current_was_last |-> FALSE,
   ex_current_was_cycle_pt |-> FALSE, started_cycling |-> FALSE]

set_to_list(S, c, L) ==
  LET cur == First(S, L) IN
  SetIt(S, c,
    [list |-> L, prev |-> S.last[L], current |-> cur,
     next |-> IF cur # NULL THEN S.nxt[cur] ELSE NULL,
     cycle_pt |-> NULL, ex_current_was_last |-> FALSE,
     ex_current_was_cycle_pt |-> FALSE, started_cycling |-> FALSE])

mark_cycle_pt(S, c) ==
  LET i == S.it[c] IN
  SetIt(S, c,
    IF i.current # NULL
    THEN [i EXCEPT !.cycle_pt = i.current, !.started_cycling = FALSE]
    ELSE [i EXCEPT !.ex_current_was_cycle_pt = TRUE, !.started_cycling = FALSE])

cycled_list(S, c) ==
  LET i == S.it[c] IN
  empty(S, i.list) \/ (i.current = i.cycle_pt /\ i.started_cycling)

at_first(S, c) ==
  LET i == S.it[c] IN
  \/ empty(S, i.list)
  \/ i.current = First(S, i.list)
  \/ (i.current = NULL /\ i.prev = S.last[i.list] /\ ~i.ex_current_was_last)

at_last(S, c) ==
  LET i == S.it[c] IN
  \/ empty(S, i.list)
  \/ i.current = S.last[i.list]
  \/ (i.current = NULL /\ i.prev = S.last[i.list] /\ i.ex_current_was_last)

\* ---------------------------------------------------------------- forward / backward
\* forward_from_current without the note that the iterator has moved.
forward_from_current_not_started(S, i) ==
  [i EXCEPT !.prev = i.current, !.current = S.nxt[i.current]]

\* if (current) { prev = current; started_cycling = true;
\*                current = current->next; }
forward_from_current(S, i) ==
  [i EXCEPT !.prev = i.current, !.started_cycling = TRUE,
            !.current = S.nxt[i.current]]

\* forward_from_deleted leaving cycle_pt on the deleted element.
forward_from_deleted_keep_cycle_pt(i) == [i EXCEPT !.current = i.next]

\* else { if (ex_current_was_cycle_pt) cycle_pt = next; current = next; }
forward_from_deleted(i) ==
  [i EXCEPT !.cycle_pt = IF i.ex_current_was_cycle_pt THEN i.next ELSE @,
            !.current = i.next]

\* forward moving to the cached next whether or not there is a current
\* element.
forward_to_cached_next(S, c) ==
  LET i == S.it[c] IN
  IF S.err # OK \/ empty(S, i.list) THEN S
  ELSE
    LET i1 == [i EXCEPT !.prev = IF i.current # NULL THEN i.current ELSE @,
                        !.started_cycling = (i.current # NULL) \/ @,
                        !.current = i.next]
    IN IF i1.current = NULL THEN Abort(SetIt(S, c, i1), "NULL_DATA")
       ELSE LET i2 == [i1 EXCEPT !.next = S.nxt[i1.current]] IN
            IF i2.next = NULL THEN Abort(SetIt(S, c, i2), "NULL_NEXT")
            ELSE SetIt(S, c, i2)

forward(S, c) ==
  LET i == S.it[c] IN
  IF S.err # OK \/ empty(S, i.list) THEN S
  ELSE
    LET i1 == IF i.current # NULL
              THEN forward_from_current(S, i)
              ELSE forward_from_deleted(i)
    IN IF i1.current = NULL THEN Abort(SetIt(S, c, i1), "NULL_DATA")
       ELSE LET i2 == [i1 EXCEPT !.next = S.nxt[i1.current]] IN
            IF i2.next = NULL THEN Abort(SetIt(S, c, i2), "NULL_NEXT")
            ELSE SetIt(S, c, i2)

backward(S, c) ==
  LET i == S.it[c] IN
  IF S.err # OK \/ empty(S, i.list) THEN S
  ELSE
    LET i1 == IF i.current # NULL
              THEN [i EXCEPT !.next = i.current, !.started_cycling = TRUE,
                             !.current = S.prv[i.current]]
              ELSE [i EXCEPT !.cycle_pt = IF i.ex_current_was_cycle_pt
                                          THEN i.prev ELSE @,
                             !.current = i.prev]
    IN IF i1.current = NULL THEN Abort(SetIt(S, c, i1), "NULL_DATA")
       ELSE IF i1.prev = NULL THEN Abort(SetIt(S, c, i1), "NULL_PREV")
       ELSE SetIt(S, c, [i1 EXCEPT !.prev = S.prv[i1.current]])

\* ---------------------------------------------------------------- exchange
\* exchange_adjacent without the store "next->prev = other_it->current" of
\* the case "other before this".
exchange_adjacent_no_back_link(t, o) ==
  IF t.next = o.current /\ o.next = t.current
  THEN <<>>
  ELSE IF o.next = t.current
       THEN << <<"next", o.prev, t.current>>,
               <<"next", o.current, t.next>>,
               <<"prev", o.current, t.current>>,
               <<"next", t.current, o.current>>,
               <<"prev", t.current, o.prev>> >>
       ELSE << <<"next", t.prev, o.current>>,
               <<"next", t.current, o.next>>,
               <<"prev", t.current, o.current>>,
               <<"next", o.current, t.current>>,
               <<"prev", o.current, t.prev>>,
               <<"prev", o.next, t.current>> >>

\* The pointer stores of the four cases; t is this iterator, o is other_it.
exchange_adjacent(t, o) ==
  IF t.next = o.current /\ o.next = t.current
  THEN <<>>                                        \* doubleton list
  ELSE IF o.next = t.current
       THEN << <<"next", o.prev, t.current>>,      \* other before this
               <<"next", o.current, t.next>>,
               <<"prev", o.current, t.current>>,
               <<"next", t.current, o.current>>,
               <<"prev", t.current, o.prev>>,
               <<"prev", t.next, o.current>> >>
       ELSE << <<"next", t.prev, o.current>>,      \* this before other
               <<"next", t.current, o.next>>,
               <<"prev", t.current, o.current>>,
               <<"next", o.current, t.current>>,
               <<"prev", o.current, t.prev>>,
               <<"prev", o.next, t.current>> >>

exchange_no_overlap(t, o) ==
  << <<"next", t.prev, o.current>>,
     <<"next", t.current, o.next>>,
     <<"prev", t.current, o.prev>>,
     <<"prev", t.next, o.current>>,
     <<"next", o.prev, t.current>>,
     <<"next", o.current, t.next>>,
     <<"prev", o.current, t.prev>>,
     <<"prev", o.next, t.current>> >>

exchange_is_adjacent(t, o) == t.next = o.current \/ o.next = t.current

\* The cached prev/next of this iterator after the relinking.
exchange_this_cache(t, o) ==
  IF ~exchange_is_adjacent(t, o) THEN t
  ELSE IF t.next = o.current /\ o.next = t.current
       THEN [t EXCEPT !.prev = t.current, !.next = t.current]
       ELSE IF o.next = t.current
            THEN [t EXCEPT !.prev = t.current]
            ELSE [t EXCEPT !.next = t.current]

\* The cached prev/next of other_it after the relinking.
exchange_other_cache(t, o) ==
  IF ~exchange_is_adjacent(t, o) THEN o
  ELSE IF t.next = o.current /\ o.next = t.current
       THEN [o EXCEPT !.prev = o.current, !.next = o.current]
       ELSE IF o.next = t.current
            THEN [o EXCEPT !.next = o.current]
            ELSE [o EXCEPT !.prev = o.current]

\* "update end of list pointer when necessary": two tests in sequence, the
\* second one reads what the first one wrote.
exchange_last(lst, t, o) ==
  LET l1 == IF lst[t.list] = t.current
            THEN [lst EXCEPT ![t.list] = o.current] ELSE lst
  IN IF l1[o.list] = o.current THEN [l1 EXCEPT ![o.list] = t.current] ELSE l1

\* The two cycle_pt tests in sequence: <<this->cycle_pt, other_it->cycle_pt>>.
exchange_cycle_pt(t, o) ==
  LET tc == IF t.current = t.cycle_pt THEN o.cycle_pt ELSE t.cycle_pt
  IN <<tc, IF o.current = o.cycle_pt THEN tc ELSE o.cycle_pt>>

exchange(S, c, d) ==
  LET t == S.it[c]
      o == S.it[d]
  IN
  IF S.err # OK THEN S
  ELSE IF empty(S, t.list) \/ empty(S, o.list) \/ t.current = o.current THEN S
  ELSE IF t.current = NULL \/ o.current = NULL
       THEN Abort(S, "DONT_EXCHANGE_DELETED")
  ELSE
    LET S1 == Stores(S, IF exchange_is_adjacent(t, o)
                        THEN exchange_adjacent(t, o)
                        ELSE exchange_no_overlap(t, o), 1)
        t1 == exchange_this_cache(t, o)
        o1 == exchange_other_cache(t, o)
        cp == exchange_cycle_pt(t, o)
    IN IF S1.err # OK THEN S1
       ELSE [S1 EXCEPT
               !.last = exchange_last(S.last, t, o),
               !.it[c] = [t1 EXCEPT !.cycle_pt = cp[1], !.current = o.current],
               !.it[d] = [o1 EXCEPT !.cycle_pt = cp[2], !.current = t.current]]

\* ---------------------------------------------------------------- extract and insertion (elst2.h)
SetF(S, c, f, v) == [S EXCEPT !.it[c][f] = v]

extract(S, c) ==
  LET i == S.it[c]
      L == i.list
  IN
  IF S.err # OK THEN S
  ELSE IF i.current = NULL THEN Abort(S, "NULL_CURRENT")
  ELSE
    LET S1 == IF singleton(S, L)
              THEN [S EXCEPT !.last[L] = NULL,
                             !.it[c].prev = NULL, !.it[c].next = NULL]
              ELSE LET R == Stores(S, << <<"next", i.prev, i.next>>,
                                         <<"prev", i.next, i.prev>> >>, 1)
                   IN IF R.err # OK THEN R
                      ELSE IF i.current = R.last[L]
                      THEN [R EXCEPT !.last[L] = i.prev,
                                     !.it[c].ex_current_was_last = TRUE]
                      ELSE [R EXCEPT !.it[c].ex_current_was_last = FALSE]
    IN IF S1.err # OK THEN S1
       ELSE [S1 EXCEPT !.it[c].ex_current_was_cycle_pt = (i.current = i.cycle_pt),
                       !.nxt[i.current] = NULL,
                       !.prv[i.current] = NULL,
                       !.it[c].current = NULL]

\* The stores that make n a one-element list under iterator c.
add_to_empty(S, c, n) ==
  [S EXCEPT !.nxt[n] = n, !.prv[n] = n, !.last[S.it[c].list] = n,
            !.it[c].prev = n, !.it[c].next = n]

add_after_then_move(S, c, n) ==
  LET i == S.it[c]
      L == i.list
  IN
  IF S.err # OK THEN S
  ELSE IF empty(S, L) THEN SetF(add_to_empty(S, c, n), c, "current", n)
  ELSE IF i.current # NULL
  THEN LET R == Stores(S, << <<"next", n, i.next>>, <<"prev", i.next, n>>,
                             <<"prev", n, i.current>>,
                             <<"next", i.current, n>> >>, 1)
       IN IF R.err # OK THEN R
          ELSE [R EXCEPT !.it[c].prev = i.current,
                         !.last[L] = IF i.current = @ THEN n ELSE @,
                         !.it[c].current = n]
  ELSE LET R == Stores(S, << <<"next", n, i.next>>, <<"prev", i.next, n>>,
                             <<"prev", n, i.prev>>, <<"next", i.prev, n>> >>, 1)
       IN IF R.err # OK THEN R
          ELSE [R EXCEPT !.last[L] = IF i.ex_current_was_last THEN n ELSE @,
                         !.it[c].cycle_pt =
                            IF i.ex_current_was_cycle_pt THEN n ELSE @,
                         !.it[c].current = n]

add_before_then_move(S, c, n) ==
  LET i == S.it[c]
      L == i.list
  IN
  IF S.err # OK THEN S
  ELSE IF empty(S, L) THEN SetF(add_to_empty(S, c, n), c, "current", n)
  ELSE IF i.current # NULL
  THEN LET R == Stores(S, << <<"next", i.prev, n>>, <<"prev", n, i.prev>>,
                             <<"next", n, i.current>>,
                             <<"prev", i.current, n>> >>, 1)
       IN IF R.err # OK THEN R
          ELSE [R EXCEPT !.it[c].next = i.current, !.it[c].current = n]
  ELSE LET R == Stores(S, << <<"next", i.prev, n>>, <<"prev", n, i.prev>>,
                             <<"next", n, i.next>>, <<"prev", i.next, n>> >>, 1)
       IN IF R.err # OK THEN R
          ELSE [R EXCEPT !.last[L] = IF i.ex_current_was_last THEN n ELSE @,
                         !.it[c].cycle_pt =
                            IF i.ex_current_was_cycle_pt THEN n ELSE @,
                         !.it[c].current = n]

add_after_stay_put(S, c, n) ==
  LET i == S.it[c]
      L == i.list
  IN
  IF S.err # OK THEN S
  ELSE IF empty(S, L)
  THEN [add_to_empty(S, c, n) EXCEPT !.it[c].ex_current_was_last = FALSE,
                                     !.it[c].current = NULL]
  ELSE IF i.current # NULL
  THEN LET R == Stores(S, << <<"next", n, i.next>>, <<"prev", i.next, n>>,
                             <<"prev", n, i.current>>,
                             <<"next", i.current, n>> >>, 1)
       IN IF R.err # OK THEN R
          ELSE [R EXCEPT !.it[c].prev = IF i.prev = i.current THEN n ELSE @,
                         !.last[L] = IF i.current = @ THEN n ELSE @,
                         !.it[c].next = n]
  ELSE LET R == Stores(S, << <<"next", n, i.next>>, <<"prev", i.next, n>>,
                             <<"prev", n, i.prev>>, <<"next", i.prev, n>> >>, 1)
       IN IF R.err # OK THEN R
          ELSE [R EXCEPT !.last[L] = IF i.ex_current_was_last THEN n ELSE @,
                         !.it[c].ex_current_was_last = FALSE,
                         !.it[c].next = n]

add_before_stay_put(S, c, n) ==
  LET i == S.it[c]
      L == i.list
  IN
  IF S.err # OK THEN S
  ELSE IF empty(S, L)
  THEN [add_to_empty(S, c, n) EXCEPT !.it[c].ex_current_was_last = TRUE,
                                     !.it[c].current = NULL]
  ELSE IF i.current # NULL
  THEN LET R == Stores(S, << <<"next", i.prev, n>>, <<"prev", n, i.prev>>,
                             <<"next", n, i.current>>,
                             <<"prev", i.current, n>> >>, 1)
       IN IF R.err # OK THEN R
          ELSE [R EXCEPT !.it[c].next = IF i.next = i.current THEN n ELSE @,
                         !.it[c].prev = n]
  ELSE LET R == Stores(S, << <<"next", i.prev, n>>, <<"prev", n, i.prev>>,
                             <<"next", n, i.next>>, <<"prev", i.next, n>> >>, 1)
       IN IF R.err # OK THEN R
          ELSE [R EXCEPT !.last[L] = IF i.ex_current_was_last THEN n ELSE @,
                         !.it[c].prev = n]

add_to_end(S, c, n) ==
  LET L == S.it[c].list IN
  IF S.err # OK THEN S
  ELSE IF at_last(S, c) THEN add_after_stay_put(S, c, n)
  ELSE IF at_first(S, c)
  THEN LET R == add_before_stay_put(S, c, n) IN
       IF R.err # OK THEN R ELSE [R EXCEPT !.last[L] = n]
  ELSE LET R == Stores(S, << <<"next", n, S.nxt[S.last[L]]>>,
                             <<"prev", n, S.last[L]>>,
                             <<"prev", S.nxt[S.last[L]], n>>,
                             <<"next", S.last[L], n>> >>, 1)
       IN IF R.err # OK THEN R ELSE [R EXCEPT !.last[L] = n]

\* ---------------------------------------------------------------- extract_sublist
\* sublist_lap_check never finding the walk back at its start.
sublist_lap_check_never(S) == FALSE

\* if (temp_it.cycled_list()) BAD_SUBLIST.error(...)
sublist_lap_check(S) == cycled_list(S, TMP)

\* sublist_tail without the store "list->last = prev".
sublist_tail_keep_last(S, c, d) ==
  IF at_last(S, TMP)
  THEN [S EXCEPT !.it[c].ex_current_was_last = TRUE,
                 !.it[d].ex_current_was_last = TRUE]
  ELSE S

\* if (temp_it.at_last()) { list->last = prev;
\*   ex_current_was_last = other_it->ex_current_was_last = true; }
sublist_tail(S, c, d) ==
  IF at_last(S, TMP)
  THEN [S EXCEPT !.last[S.it[c].list] = S.it[c].prev,
                 !.it[c].ex_current_was_last = TRUE,
                 !.it[d].ex_current_was_last = TRUE]
  ELSE S

\* The do-while loop over temp_it (the iterator TMP).  A walk of more than
\* MaxNodes + 1 rounds never ends: it is recorded as DIVERGES.
RECURSIVE sublist_walk(_, _, _, _)
sublist_walk(S, c, d, fuel) ==
  IF S.err # OK THEN S
  ELSE IF fuel = 0 THEN Abort(S, "DIVERGES")
  ELSE IF sublist_lap_check(S) THEN Abort(S, "BAD_SUBLIST")
  ELSE
    LET S1 == sublist_tail(S, c, d)
        S2 == IF S1.it[TMP].current = S1.it[c].cycle_pt
              THEN SetF(S1, c, "ex_current_was_cycle_pt", TRUE) ELSE S1
        S3 == IF S2.it[TMP].current = S2.it[d].cycle_pt
              THEN SetF(S2, d, "ex_current_was_cycle_pt", TRUE) ELSE S2
        S4 == forward(S3, TMP)
    IN IF S4.err # OK THEN S4
       ELSE IF S4.it[TMP].prev # S4.it[d].current
       THEN sublist_walk(S4, c, d, fuel - 1)
       ELSE S4

\* sublist_close_gap without the store "other_it->next->prev = prev".
sublist_close_gap_one_way(t, o) ==
  << <<"next", t.prev, o.next>> >>

\* The two stores that link the node before the range to the node after it.
sublist_close_gap(t, o) ==
  << <<"next", t.prev, o.next>>, <<"prev", o.next, t.prev>> >>

\* sublist_cut without the stores "next = other_it->next" and
\* "other_it->prev = prev" into the two iterators.
sublist_cut_keep_caches(S, c, d) ==
  LET t == S.it[c]
      o == S.it[d]
      R == Stores(S, << <<"next", o.current, t.current>>,
                        <<"prev", t.current, o.current>> >>, 1)
  IN IF R.err # OK THEN R
     ELSE IF t.prev = o.current
     THEN LET R1 == [R EXCEPT !.last[t.list] = NULL,
                              !.it[c].prev = NULL, !.it[c].current = NULL,
                              !.it[c].next = NULL]
          IN [R1 EXCEPT !.it[d].prev = NULL, !.it[d].current = NULL,
                        !.it[d].next = NULL]
     ELSE LET R1 == Stores(R, sublist_close_gap(t, o), 1)
          IN IF R1.err # OK THEN R1
             ELSE SetF(SetF(R1, d, "current", NULL), c, "current", NULL)

\* The relinking after the walk: close the sublist, then either empty the
\* list or close the gap.
sublist_cut(S, c, d) ==
  LET t == S.it[c]
      o == S.it[d]
      R == Stores(S, << <<"next", o.current, t.current>>,
                        <<"prev", t.current, o.current>> >>, 1)
  IN IF R.err # OK THEN R
     ELSE IF t.prev = o.current
     THEN LET R1 == [R EXCEPT !.last[t.list] = NULL,
                              !.it[c].prev = NULL, !.it[c].current = NULL,
                              !.it[c].next = NULL]
          IN [R1 EXCEPT !.it[d].prev = NULL, !.it[d].current = NULL,
                        !.it[d].next = NULL]
     ELSE LET R1 == Stores(R, sublist_close_gap(t, o), 1)
          IN IF R1.err # OK THEN R1
             ELSE LET R2 == SetF(SetF(R1, d, "current", NULL), c, "current", NULL)
                      R3 == SetF(R2, c, "next", R2.it[d].next)
                  IN SetF(R3, d, "prev", R3.it[c].prev)

\* The state on return; the value returned is other_it's current on entry.
extract_sublist(S, c, d) ==
  LET t == S.it[c]
      o == S.it[d]
  IN
  IF S.err # OK THEN S
  ELSE IF t.list # o.list THEN Abort(S, "BAD_EXTRACTION_PTS")
  ELSE IF empty(S, t.list) THEN Abort(S, "EMPTY_LIST")
  ELSE IF t.current = NULL \/ o.current = NULL
       THEN Abort(S, "DONT_EXTRACT_DELETED")
  ELSE
    LET S0 == SetIt(S, TMP, t)
        S1 == SetF(SetF(S0, c, "ex_current_was_last", FALSE),
                   d, "ex_current_was_last", FALSE)
        S2 == SetF(SetF(S1, c, "ex_current_was_cycle_pt", FALSE),
                   d, "ex_current_was_cycle_pt", FALSE)
        S3 == sublist_walk(mark_cycle_pt(S2, TMP), c, d, MaxNodes + 1)
    IN SetIt(sublist_cut(S3, c, d), TMP, NoIt)

\* assign_to_sublist testing the destination after the extraction.
assign_to_sublist_check_late(S, L, c, d) ==
  IF S.err # OK THEN S
  ELSE LET R == extract_sublist(S, c, d) IN
       IF R.err # OK THEN R
       ELSE IF ~empty(S, L) THEN Abort(R, "LIST_NOT_EMPTY")
       ELSE [R EXCEPT !.last[L] = S.it[d].current]

assign_to_sublist(S, L, c, d) ==
  IF S.err # OK THEN S
  ELSE IF ~empty(S, L)
  THEN Abort(S, "LIST_NOT_EMPTY")
  ELSE LET R == extract_sublist(S, c, d) IN
       IF R.err # OK THEN R ELSE [R EXCEPT !.last[L] = S.it[d].current]

\* ---------------------------------------------------------------- internal_clear
\* The caller's callback is handed the link ptr of list L: it sees whether
\* the list is empty, and deletes the link.
Seen(S, L, ptr) == [node |-> ptr, removed |-> TRUE, empty |-> empty(S, L)]

zapper(S, ptr) == [S EXCEPT !.nxt[ptr] = NULL, !.prv[ptr] = NULL]

\* clear_detach leaving last set while the links are walked.
clear_detach_keep_last(S, L) ==
  Stores(S, << <<"next", S.last[L], NULL>> >>, 1)

\* last->next = nullptr; last = nullptr;
clear_detach(S, L) ==
  LET R == Stores(S, << <<"next", S.last[L], NULL>> >>, 1)
  IN [R EXCEPT !.last[L] = NULL]

\* clear_walk reading ptr->next after the callback has deleted ptr.
RECURSIVE clear_walk_next_after_zap(_, _, _, _, _)
clear_walk_next_after_zap(S, L, ptr, seen, fuel) ==
  IF S.err # OK \/ ptr = NULL THEN [S |-> S, seen |-> seen]
  ELSE IF fuel = 0 THEN [S |-> Abort(S, "DIVERGES"), seen |-> seen]
  ELSE LET Z == zapper(S, ptr) IN
       clear_walk_next_after_zap(Z, L, Z.nxt[ptr],
                                 Append(seen, Seen(S, L, ptr)), fuel - 1)

\* while (ptr) { next = ptr->next; zapper(ptr); ptr = next; }: the state
\* after the loop and the calls of the callback.
RECURSIVE clear_walk(_, _, _, _, _)
clear_walk(S, L, ptr, seen, fuel) ==
  IF S.err # OK \/ ptr = NULL THEN [S |-> S, seen |-> seen]
  ELSE IF fuel = 0 THEN [S |-> Abort(S, "DIVERGES"), seen |-> seen]
  ELSE LET next == S.nxt[ptr] IN
       clear_walk(zapper(S, ptr), L, next, Append(seen, Seen(S, L, ptr)),
                  fuel - 1)

internal_clear(S, L) ==
  IF S.err # OK \/ empty(S, L) THEN [S |-> S, seen |-> <<>>]
  ELSE clear_walk(clear_detach(S, L), L, S.nxt[S.last[L]], <<>>,
                  MaxNodes + 1)

\* ---------------------------------------------------------------- length, sort, add_sorted
\* The comparison routine: orders the links by their keys.
comparator(x, y) == key[x] - key[y]

\* length_loop counting as a do-while loop: the body runs before the test.
RECURSIVE length_loop_test_last(_, _, _)
length_loop_test_last(S, count, fuel) ==
  IF S.err # OK THEN [S |-> S, count |-> -1]
  ELSE IF fuel = 0 THEN [S |-> Abort(S, "DIVERGES"), count |-> -1]
  ELSE LET F == forward(S, LEN) IN
       IF cycled_list(F, LEN) THEN [S |-> F, count |-> count + 1]
       ELSE length_loop_test_last(F, count + 1, fuel - 1)

\* The counting loop of length() over its own iterator LEN: the state after
\* the loop and the count.  -1 stands for a count that is never returned.
RECURSIVE length_loop(_, _, _)
length_loop(S, count, fuel) ==
  IF S.err # OK THEN [S |-> S, count |-> -1]
  ELSE IF fuel = 0 THEN [S |-> Abort(S, "DIVERGES"), count |-> -1]
  ELSE IF cycled_list(S, LEN) THEN [S |-> S, count |-> count]
  ELSE length_loop(forward(S, LEN), count + 1, fuel - 1)

\* length(): the state on return, its iterator destroyed, and the value
\* returned.
length(S, L) ==
  LET R == length_loop(mark_cycle_pt(set_to_list(S, LEN, L), LEN), 0,
                       MaxNodes + 1)
  IN [S |-> SetIt(R.S, LEN, NoIt), count |-> R.count]

\* sort_extract storing every pointer in the first slot of the array.
RECURSIVE sort_extract_no_advance(_, _, _)
sort_extract_no_advance(S, base, fuel) ==
  IF S.err # OK THEN [S |-> S, base |-> base]
  ELSE IF fuel = 0 THEN [S |-> Abort(S, "DIVERGES"), base |-> base]
  ELSE IF cycled_list(S, TMP) THEN [S |-> S, base |-> base]
  ELSE sort_extract_no_advance(forward(extract(S, TMP), TMP),
                               <<S.it[TMP].current>>, fuel - 1)

\* The extraction loop of sort() over its iterator TMP: the state after the
\* loop and the array of pointers filled by it.
RECURSIVE sort_extract(_, _, _)
sort_extract(S, base, fuel) ==
  IF S.err # OK THEN [S |-> S, base |-> base]
  ELSE IF fuel = 0 THEN [S |-> Abort(S, "DIVERGES"), base |-> base]
  ELSE IF cycled_list(S, TMP) THEN [S |-> S, base |-> base]
  ELSE sort_extract(forward(extract(S, TMP), TMP),
                    Append(base, S.it[TMP].current), fuel - 1)

\* The arrays qsort may leave: every arrangement of the pointers that is
\* ordered by the comparator (qsort is not stable).  Built smallest first.
RECURSIVE Arrangements(_)
Arrangements(ptrs) ==
  IF ptrs = {} THEN {<<>>}
  ELSE UNION { { <<x>> \o rest : rest \in Arrangements(ptrs \ {x}) } :
               x \in { y \in ptrs : \A z \in ptrs : comparator(y, z) <= 0 } }

qsort(base) == Arrangements({base[k] : k \in 1..Len(base)})

\* sort_rebuild walking the array from its end.
RECURSIVE sort_rebuild_backwards(_, _, _)
sort_rebuild_backwards(S, base, k) ==
  IF k > Len(base) \/ S.err # OK THEN S
  ELSE sort_rebuild_backwards(add_to_end(S, TMP, base[Len(base) + 1 - k]),
                              base, k + 1)

\* The rebuilding loop of sort(): add_to_end of every pointer in turn.
RECURSIVE sort_rebuild(_, _, _)
sort_rebuild(S, base, k) ==
  IF k > Len(base) \/ S.err # OK THEN S
  ELSE sort_rebuild(add_to_end(S, TMP, base[k]), base, k + 1)

\* The states sort() may return in, one for each array qsort may leave.
sort(S, L) ==
  IF S.err # OK THEN {S}
  ELSE
    LET S1 == set_to_list(S, TMP, L)
        N == length(S1, L)
        count == N.count
        X == sort_extract(mark_cycle_pt(N.S, TMP), <<>>, MaxNodes + 1)
    IN IF N.S.err # OK THEN {N.S}
       ELSE IF X.S.err # OK THEN {X.S}
       ELSE IF Len(X.base) > count THEN {Abort(X.S, "BUFFER_OVERRUN")}
       ELSE { SetIt(sort_rebuild(X.S, sorted, 1), TMP, NoIt) :
                sorted \in qsort(X.base) }

\* add_sorted_break with the comparison the wrong way round.
add_sorted_break_smaller(link, new_link) == comparator(link, new_link) < 0

\* add_sorted_break stopping at an equal element already.
add_sorted_break_equal(link, new_link) == comparator(link, new_link) >= 0

\* The test that ends the scan of add_sorted().
add_sorted_break(link, new_link) == comparator(link, new_link) > 0

\* The scanning loop of add_sorted() over its iterator TMP.
RECURSIVE add_sorted_scan(_, _, _)
add_sorted_scan(S, n, fuel) ==
  IF S.err # OK THEN S
  ELSE IF fuel = 0 THEN Abort(S, "DIVERGES")
  ELSE IF cycled_list(S, TMP) THEN S
  ELSE IF add_sorted_break(S.it[TMP].current, n) THEN S
  ELSE add_sorted_scan(forward(S, TMP), n, fuel - 1)

add_sorted(S, L, n) ==
  IF S.err # OK THEN S
  ELSE IF S.last[L] = NULL
  THEN [S EXCEPT !.nxt[n] = n, !.prv[n] = n, !.last[L] = n]
  ELSE IF comparator(S.last[L], n) < 0
  THEN LET R == Stores(S, << <<"next", n, S.nxt[S.last[L]]>>,
                             <<"prev", n, S.last[L]>>,
                             <<"next", S.last[L], n>>,
                             <<"prev", S.nxt[S.last[L]], n>> >>, 1)
       IN IF R.err # OK THEN R ELSE [R EXCEPT !.last[L] = n]
  ELSE LET S1 == add_sorted_scan(mark_cycle_pt(set_to_list(S, TMP, L), TMP),
                                 n, MaxNodes + 1)
           S2 == IF cycled_list(S1, TMP) THEN add_to_end(S1, TMP, n)
                 ELSE add_before_then_move(S1, TMP, n)
       IN SetIt(S2, TMP, NoIt)

\* ---------------------------------------------------------------- chains
\* The nodes met by following next from n, n included, at most k steps.
RECURSIVE Walk(_, _, _)
Walk(f, n, k) ==
  IF n = NULL \/ k = 0 THEN <<>>
  ELSE <<n>> \o Walk(f, f[n], k - 1)

\* Forward order of list L: from last->next up to the first return to last.
RECURSIVE UpTo(_, _)
UpTo(w, n) ==
  IF w = <<>> THEN <<>>
  ELSE IF Head(w) = n THEN <<n>> ELSE <<Head(w)>> \o UpTo(Tail(w), n)

Order(S, L) ==
  IF S.last[L] = NULL THEN <<>>
  ELSE UpTo(Walk(S.nxt, S.nxt[S.last[L]], MaxNodes), S.last[L])

Range(s) == {s[k] : k \in 1..Len(s)}

Chain(S, L) == Range(Order(S, L))

\* List invariant of the data model: a circular chain through last in which
\* next and prev are inverse and every node is met once.
WellFormed(S, L) ==
  \/ S.last[L] = NULL
  \/ LET w == Order(S, L) IN
     /\ w # <<>>
     /\ w[Len(w)] = S.last[L]
     /\ Cardinality(Range(w)) = Len(w)
     /\ \A k \in 1..Len(w) :
          /\ S.nxt[w[k]] = w[(k % Len(w)) + 1]
          /\ S.prv[w[(k % Len(w)) + 1]] = w[k]

\* ---------------------------------------------------------------- initial states
\* The list holding the nodes lo..hi in that order, as link fields.
LinkNext(n, lo, hi) == IF n < lo \/ n > hi THEN NULL ELSE IF n = hi THEN lo ELSE n + 1
LinkPrev(n, lo, hi) == IF n < lo \/ n > hi THEN NULL ELSE IF n = lo THEN hi ELSE n - 1

\* Two lists built by add_to_end: L1 = 1..k, L2 = k+1..m, the other nodes
\* are not on any list.
TwoLists(k, m) ==
  [nxt |-> [n \in Nodes |-> IF n <= k THEN LinkNext(n, 1, k) ELSE LinkNext(n, k + 1, m)],
   prv |-> [n \in Nodes |-> IF n <= k THEN LinkPrev(n, 1, k) ELSE LinkPrev(n, k + 1, m)],
   last |-> [L \in Lists |-> IF L = SRC THEN (IF k >= 1 THEN k ELSE NULL)
                                        ELSE (IF m > k THEN m ELSE NULL)],
   it |-> [c \in AllCursors |-> NoIt],
   err |-> OK]

Apply(S) ==
  /\ nxt' = S.nxt
  /\ prv' = S.prv
  /\ last' = S.last
  /\ it' = S.it
  /\ err' = S.err

Call(name, c, d, n) == [name |-> name, it |-> c, other |-> d, arg |-> n]

\* ---------------------------------------------------------------- actions
\* op is the last call that can change a list, calls counts these calls.
\* forward, backward and mark_cycle_pt only move or mark an iterator; the
\* harness positions its iterators with them before the first such call.
Forward(c) ==
  /\ err = OK
  /\ calls = 0
  /\ Apply(forward(World, c))
  /\ UNCHANGED <<key, op, calls, log>>

Backward(c) ==
  /\ err = OK
  /\ calls = 0
  /\ Apply(backward(World, c))
  /\ UNCHANGED <<key, op, calls, log>>

MarkCyclePt(c) ==
  /\ err = OK
  /\ calls = 0
  /\ Apply(mark_cycle_pt(World, c))
  /\ UNCHANGED <<key, op, calls, log>>

Exchange(c, d) ==
  /\ err = OK
  /\ calls < MaxOps
  /\ c # d
  /\ Apply(exchange(World, c, d))
  /\ op' = Call("exchange", c, d, NULL)
  /\ calls' = calls + 1
  /\ UNCHANGED <<key, log>>

Extract(c) ==
  /\ err = OK
  /\ calls < MaxOps
  /\ Apply(extract(World, c))
  /\ op' = Call("extract", c, NONE, NULL)
  /\ calls' = calls + 1
  /\ UNCHANGED <<key, log>>

\* Only a link that is on no list may be inserted.
Unlinked(n) == nxt[n] = NULL /\ prv[n] = NULL

AddBeforeThenMove(c, n) ==
  /\ err = OK
  /\ calls < MaxOps
  /\ Unlinked(n)
  /\ Apply(add_before_then_move(World, c, n))
  /\ op' = Call("add_before_then_move", c, NONE, n)
  /\ calls' = calls + 1
  /\ UNCHANGED <<key, log>>

AddAfterThenMove(c, n) ==
  /\ err = OK
  /\ calls < MaxOps
  /\ Unlinked(n)
  /\ Apply(add_after_then_move(World, c, n))
  /\ op' = Call("add_after_then_move", c, NONE, n)
  /\ calls' = calls + 1
  /\ UNCHANGED <<key, log>>

AssignToSublist(L, c, d) ==
  /\ err = OK
  /\ calls < MaxOps
  /\ Apply(assign_to_sublist(World, L, c, d))
  /\ op' = Call("assign_to_sublist", c, d, NULL)
  /\ calls' = calls + 1
  /\ UNCHANGED <<key, log>>

AddSorted(n) ==
  /\ err = OK
  /\ Unlinked(n)
  /\ Apply(add_sorted(World, SRC, n))
  /\ op' = Call("add_sorted", NONE, NONE, n)
  /\ calls' = calls + 1
  /\ UNCHANGED <<key, log>>

\* ELIST2_ITERATOR it(&list); it.add_to_end(n);  The links are taken in
\* address order: their keys are arbitrary, so every sequence of keys is built.
AddToEnd(n) ==
  /\ err = OK
  /\ Unlinked(n)
  /\ \A m \in Nodes : m < n => ~Unlinked(m)
  /\ Apply(SetIt(add_to_end(set_to_list(World, TMP, SRC), TMP, n), TMP, NoIt))
  /\ op' = Call("add_to_end", NONE, NONE, n)
  /\ calls' = calls + 1
  /\ UNCHANGED <<key, log>>

Sort ==
  /\ err = OK
  /\ calls < MaxNodes + MaxOps
  /\ \E R \in sort(World, SRC) : Apply(R)
  /\ op' = Call("sort", NONE, NONE, NULL)
  /\ calls' = calls + 1
  /\ UNCHANGED <<key, log>>

\* ---------------------------------------------------------------- exchange of two iterators
\* Iterators a and b are constructed on L1 and on L1 or L2, moved about,
\* marked, and exchanged.
XCursors == {"a", "b"}

InitExchange ==
  \E k \in 1..MaxNodes, m \in 0..MaxNodes, Lb \in Lists :
    /\ m >= k
    /\ Lb = DST => m > k
    /\ LET S == set_to_list(set_to_list(TwoLists(k, m), "a", SRC), "b", Lb)
       IN /\ nxt = S.nxt /\ prv = S.prv /\ last = S.last /\ it = S.it
          /\ err = S.err
    /\ key = [n \in Nodes |-> 1]
    /\ op = Call("init", NONE, NONE, NULL)
    /\ calls = 0
    /\ log = <<>>

NextExchange ==
  \E c \in XCursors :
    \/ Forward(c)
    \/ Backward(c)
    \/ MarkCyclePt(c)
    \/ \E d \in XCursors : Exchange(c, d)

SpecExchange == InitExchange /\ [][NextExchange]_vars

\* ---------------------------------------------------------------- claims on exchange
\* The two iterators of a call are on set, distinct nodes of non-empty lists.
Exchangeable(c, d) ==
  /\ it[c].current # NULL
  /\ it[d].current # NULL
  /\ it[c].current # it[d].current
  /\ last[it[c].list] # NULL
  /\ last[it[d].list] # NULL

\* The node at the place of n once x and y have traded places.
Swap(x, y, n) == IF n = x THEN y ELSE IF n = y THEN x ELSE n

SwapSeq(x, y, w) == [k \in 1..Len(w) |-> Swap(x, y, w[k])]

\* C2: exchange of two iterators on one list, currents set and distinct:
\* each iterator ends on the other's former node, the two nodes have traded
\* places in the circular neighbour relation while every other node keeps
\* its place, and each iterator's cached prev and next are the links of its
\* new current.
C2_ExchangeOneList ==
  [][\A c, d \in XCursors :
       (Exchange(c, d) /\ Exchangeable(c, d) /\ it[c].list = it[d].list)
       => LET x == it[c].current
              y == it[d].current
          IN /\ err' = OK
             /\ it'[c].current = y
             /\ it'[d].current = x
             /\ \A n \in Chain(World, it[c].list) :
                  /\ nxt'[Swap(x, y, n)] = Swap(x, y, nxt[n])
                  /\ prv'[Swap(x, y, n)] = Swap(x, y, prv[n])
             /\ \A n \in Nodes \ Chain(World, it[c].list) :
                  nxt'[n] = nxt[n] /\ prv'[n] = prv[n]
             /\ \A e \in {c, d} :
                  /\ it'[e].prev = prv'[it'[e].current]
                  /\ it'[e].next = nxt'[it'[e].current]]_vars

\* C2 witness: an exchange of two non-adjacent nodes of one list has returned.
C2_Witness ==
  /\ op.name = "exchange"
  /\ err = OK
  /\ it["a"].list = it["b"].list
  /\ Exchangeable("a", "b")
  /\ nxt[it["a"].current] # it["b"].current
  /\ nxt[it["b"].current] # it["a"].current
  /\ it["a"].prev = prv[it["a"].current]
  /\ it["b"].next = nxt[it["b"].current]

\* C3: exchange, the tail role follows the position: a swapped node that was
\* its list's last is replaced as last by the other swapped node, through
\* whichever iterator the call is made and also on one list, so that the
\* forward order of one list is the former order with the two nodes swapped.
C3_TailFollowsPosition ==
  [][\A c, d \in XCursors :
       (Exchange(c, d) /\ Exchangeable(c, d))
       => LET x == it[c].current
              y == it[d].current
          IN /\ last[it[c].list] = x => last'[it[c].list] = y
             /\ last[it[d].list] = y => last'[it[d].list] = x
             /\ it[c].list = it[d].list
                  => Order(World', it[c].list)
                       = SwapSeq(x, y, Order(World, it[c].list))]_vars

\* C4: exchange, the cycle-marker role follows the position: an iterator
\* whose current was its own cycle_pt has its new current as cycle_pt.
C4_CyclePtFollowsPosition ==
  [][\A c, d \in XCursors :
       (Exchange(c, d) /\ Exchangeable(c, d))
       => \A e \in {c, d} :
            it[e].current = it[e].cycle_pt
              => it'[e].cycle_pt = it'[e].current]_vars

\* C5: exchange is an involution: two calls a.exchange(b) in a row restore
\* every link, every last and both iterators' current, prev and next.
C5_ExchangeInvolution ==
  \A c, d \in XCursors :
    (c # d /\ err = OK /\ Exchangeable(c, d))
    => LET S2 == exchange(exchange(World, c, d), c, d)
       IN /\ S2.err = OK
          /\ S2.nxt = nxt
          /\ S2.prv = prv
          /\ S2.last = last
          /\ \A e \in {c, d} :
               /\ S2.it[e].current = it[e].current
               /\ S2.it[e].prev = it[e].prev
               /\ S2.it[e].next = it[e].next

\* C6: exchange across two different well-formed lists: both lists keep
\* their lengths and stay well-formed circular chains, and each holds its
\* former nodes with the swapped node replaced by the other one; also for
\* lists of one element.
C6_ExchangeTwoLists ==
  [][\A c, d \in XCursors :
       (/\ Exchange(c, d)
        /\ Exchangeable(c, d)
        /\ it[c].list # it[d].list
        /\ WellFormed(World, it[c].list)
        /\ WellFormed(World, it[d].list)
        /\ it[c].current \in Chain(World, it[c].list)
        /\ it[d].current \in Chain(World, it[d].list))
       => LET x == it[c].current
              y == it[d].current
              Lc == it[c].list
              Ld == it[d].list
          IN /\ WellFormed(World', Lc)
             /\ WellFormed(World', Ld)
             /\ Order(World', Lc) = SwapSeq(x, y, Order(World, Lc))
             /\ Order(World', Ld) = SwapSeq(x, y, Order(World, Ld))]_vars

\* The same with both lists of two or more nodes.
C6_TwoListsNoSingleton ==
  [][\A c, d \in XCursors :
       (/\ Exchange(c, d)
        /\ Exchangeable(c, d)
        /\ it[c].list # it[d].list
        /\ WellFormed(World, it[c].list)
        /\ WellFormed(World, it[d].list)
        /\ Len(Order(World, it[c].list)) >= 2
        /\ Len(Order(World, it[d].list)) >= 2)
       => LET x == it[c].current
              y == it[d].current
              Lc == it[c].list
              Ld == it[d].list
          IN /\ WellFormed(World', Lc)
             /\ WellFormed(World', Ld)
             /\ Order(World', Lc) = SwapSeq(x, y, Order(World, Lc))
             /\ Order(World', Ld) = SwapSeq(x, y, Order(World, Ld))]_vars

\* ---------------------------------------------------------------- sublist of one list
\* Iterators a and b are constructed on L1 = 1..k, moved about and marked;
\* then the empty list L2 is assigned the sublist from one to the other.
InitSublist ==
  \E k \in 1..MaxNodes :
    /\ LET S == set_to_list(set_to_list(TwoLists(k, k), "a", SRC), "b", SRC)
       IN /\ nxt = S.nxt /\ prv = S.prv /\ last = S.last /\ it = S.it
          /\ err = S.err
    /\ key = [n \in Nodes |-> 1]
    /\ op = Call("init", NONE, NONE, NULL)
    /\ calls = 0
    /\ log = <<>>

NextSublist ==
  \E c \in XCursors :
    \/ Forward(c)
    \/ Backward(c)
    \/ MarkCyclePt(c)
    \/ \E d \in XCursors : AssignToSublist(DST, c, d)

SpecSublist == InitSublist /\ [][NextSublist]_vars

\* Position of node n in the sequence w.
Pos(w, n) == CHOOSE k \in 1..Len(w) : w[k] = n

\* C7: partition law: with start at position i and end at position j >= i
\* of a list of N nodes, assign_to_sublist on an empty destination leaves
\* the N-(j-i+1) nodes before i and after j in the source in their order and
\* the nodes i..j in the destination in their order, node j being its last.
C7_PartitionLaw ==
  [][\A c, d \in XCursors :
       (/\ AssignToSublist(DST, c, d)
        /\ last[DST] = NULL
        /\ it[c].list = SRC /\ it[d].list = SRC
        /\ it[c].current \in Chain(World, SRC)
        /\ it[d].current \in Chain(World, SRC)
        /\ Pos(Order(World, SRC), it[c].current)
             <= Pos(Order(World, SRC), it[d].current))
       => LET w == Order(World, SRC)
              i == Pos(w, it[c].current)
              j == Pos(w, it[d].current)
          IN /\ err' = OK
             /\ Order(World', SRC) = SubSeq(w, 1, i - 1) \o SubSeq(w, j + 1, Len(w))
             /\ Order(World', DST) = SubSeq(w, i, j)
             /\ Len(Order(World', SRC)) = Len(w) - (j - i + 1)
             /\ last'[DST] = w[j]
             /\ WellFormed(World', SRC)
             /\ WellFormed(World', DST)]_vars

\* C7 witness: [A,B,C,D] with the iterators on B and C has become [A,D]
\* and [B,C].
C7_Witness ==
  /\ op.name = "assign_to_sublist"
  /\ err = OK
  /\ Order(World, SRC) = <<1, 4>>
  /\ Order(World, DST) = <<2, 3>>

\* ---------------------------------------------------------------- several iterators on one list
\* Iterators a, b and c are constructed on L1 = 1..k and moved about; then
\* up to MaxOps calls change the list through any of them.
MCursors == {"a", "b", "c"}

InitMulti ==
  \E k \in 1..MaxNodes :
    /\ LET S == set_to_list(set_to_list(set_to_list(TwoLists(k, k),
                   "a", SRC), "b", SRC), "c", SRC)
       IN /\ nxt = S.nxt /\ prv = S.prv /\ last = S.last /\ it = S.it
          /\ err = S.err
    /\ key = [n \in Nodes |-> 1]
    /\ op = Call("init", NONE, NONE, NULL)
    /\ calls = 0
    /\ log = <<>>

NextMulti ==
  \E c \in MCursors :
    \/ Forward(c)
    \/ Backward(c)
    \/ Extract(c)
    \/ \E n \in Nodes : AddBeforeThenMove(c, n)
    \/ \E n \in Nodes : AddAfterThenMove(c, n)
    \/ \E d \in MCursors : Exchange(c, d)
    \/ \E d \in MCursors : AssignToSublist(DST, c, d)

SpecMulti == InitMulti /\ [][NextMulti]_vars

Mutators ==
  {"extract", "add_before_then_move", "add_after_then_move", "exchange",
   "assign_to_sublist"}

\* C1: multi-iterator safety: after a call through one iterator has changed
\* a list that is still non-empty, every other iterator on that list is on
\* a node linked in the list or is unset, and its next forward() or
\* backward() lands on a node linked in the list.
C1_MultiCursorSafety ==
  (op.name \in Mutators /\ err = OK)
  => \A y \in MCursors \ {op.it, op.other} :
       last[it[y].list] # NULL
       => /\ it[y].current # NULL => it[y].current \in Chain(World, it[y].list)
          /\ LET F == forward(World, y)
             IN F.err = OK /\ F.it[y].current \in Chain(World, it[y].list)
          /\ LET B == backward(World, y)
             IN B.err = OK /\ B.it[y].current \in Chain(World, it[y].list)

\* The same for the calls whose code is in elst2.cpp alone (exchange and
\* assign_to_sublist / extract_sublist) made on a list no call has changed
\* before.
C1_SafetyOfSublist ==
  (op.name = "assign_to_sublist" /\ calls = 1 /\ err = OK)
  => \A y \in MCursors \ {op.it, op.other} :
       last[it[y].list] # NULL
       => /\ it[y].current # NULL => it[y].current \in Chain(World, it[y].list)
          /\ LET F == forward(World, y)
             IN F.err = OK /\ F.it[y].current \in Chain(World, it[y].list)

\* ---------------------------------------------------------------- sorted lists
\* The links carry keys 1..MaxKey; the list L1 starts empty.
InitKeys ==
  /\ LET S == TwoLists(0, 0)
     IN /\ nxt = S.nxt /\ prv = S.prv /\ last = S.last /\ it = S.it
        /\ err = S.err
  /\ key \in [Nodes -> 1..MaxKey]
  /\ op = Call("init", NONE, NONE, NULL)
  /\ calls = 0
  /\ log = <<>>

\* Links are appended in any order and the list is sorted at any time.
NextSort ==
  \/ \E n \in Nodes : AddToEnd(n)
  \/ Sort

SpecSort == InitKeys /\ [][NextSort]_vars

\* Links are inserted by add_sorted only, in any order.
NextAddSorted == \E n \in Nodes : AddSorted(n)

SpecAddSorted == InitKeys /\ [][NextAddSorted]_vars

\* Every two links adjacent in forward order from last->next to last are in
\* comparator order.
Sorted(w) == \A k \in 1..(Len(w) - 1) : comparator(w[k], w[k + 1]) <= 0

\* C8: sort correctness: when sort(cmp) has returned, every pair of links
\* adjacent in forward traversal order satisfies cmp(a, b) <= 0; also for
\* the empty list and with equal keys.
C8_SortCorrectness ==
  op.name = "sort" => (err = OK /\ Sorted(Order(World, SRC)))

\* C8 witness: sort has returned on three or more links, two of them equal,
\* the head strictly below the tail.
C8_Witness ==
  /\ op.name = "sort"
  /\ err = OK
  /\ LET w == Order(World, SRC)
     IN /\ Len(w) >= 3
        /\ key[w[1]] = key[w[2]]
        /\ key[w[1]] < key[w[Len(w)]]
        /\ w[1] > w[2]
        /\ w[Len(w)] < w[1]

\* C9: ordered-insert invariant: from the empty list, after every
\* add_sorted the list is in comparator order, whatever the insertion order.
C9_OrderedInsert ==
  err = OK /\ Sorted(Order(World, SRC))

\* C9 witness: add_sorted has put a link between a smaller and a greater one
\* (scan path).
C9_Witness ==
  /\ op.name = "add_sorted"
  /\ err = OK
  /\ LET w == Order(World, SRC)
     IN /\ Len(w) >= 3
        /\ Len(w) = calls
        /\ w[2] = op.arg
        /\ key[w[1]] < key[w[2]]
        /\ key[w[2]] < key[w[3]]

\* C10: add_sorted tie-breaking: when the list holds links equal to the new
\* one, the new link is placed right after the last of them, the rest of the
\* list keeping its order.
C10_TieBreaking ==
  [][\A n \in Nodes :
       (AddSorted(n) /\ \E e \in Chain(World, SRC) : comparator(e, n) = 0)
       => LET w == Order(World, SRC)
              kmax == CHOOSE k \in 1..Len(w) :
                        /\ comparator(w[k], n) = 0
                        /\ \A j \in (k + 1)..Len(w) : comparator(w[j], n) # 0
          IN Order(World', SRC)
               = SubSeq(w, 1, kmax) \o <<n>> \o SubSeq(w, kmax + 1, Len(w))]_vars

\* C10 witness: the new link follows an equal link in the middle of the
\* list, before a greater one.
C10_Witness ==
  /\ op.name = "add_sorted"
  /\ err = OK
  /\ LET w == Order(World, SRC)
     IN /\ Len(w) >= 4
        /\ w[3] = op.arg
        /\ key[w[1]] < key[w[2]]
        /\ key[w[2]] = key[w[3]]
        /\ key[w[3]] < key[w[4]]

\* ---------------------------------------------------------------- traversal loop
\* count = list.length();
\* for (a.mark_cycle_pt(); !a.cycled_list(); a.forward()) { body }
\* over the list L1 = 1..k, entered with the iterator a on any of its links.
\* The body is handed a.data() and may extract it.  op.arg keeps count.
InLoop == op.name \in {"mark_cycle_pt", "loop"}

InitLoop ==
  \E k \in 0..MaxNodes :
    /\ LET S == set_to_list(TwoLists(k, k), "a", SRC)
       IN /\ nxt = S.nxt /\ prv = S.prv /\ last = S.last /\ it = S.it
          /\ err = S.err
    /\ key = [n \in Nodes |-> 1]
    /\ op = Call("init", NONE, NONE, NULL)
    /\ calls = 0
    /\ log = <<>>

\* Before the loop the iterator is moved on, not further than one lap.
LoopPosition ==
  /\ err = OK
  /\ op.name = "init"
  /\ ~it["a"].started_cycling \/ it["a"].current # First(World, SRC)
  /\ Apply(forward(World, "a"))
  /\ UNCHANGED <<key, op, calls, log>>

LoopEnter ==
  /\ err = OK
  /\ op.name = "init"
  /\ LET N == length(World, SRC)
     IN /\ Apply(mark_cycle_pt(N.S, "a"))
        /\ op' = Call("mark_cycle_pt", "a", NONE, N.count)
  /\ UNCHANGED <<key, calls, log>>

\* One turn of the loop: the test, the body, which extracts the element if x,
\* and forward().  a.data() stops the program if there is no current element.
LoopTurn(x) ==
  /\ err = OK
  /\ InLoop
  /\ calls <= MaxNodes
  /\ ~cycled_list(World, "a")
  /\ LET n == it["a"].current
         D == IF n = NULL THEN Abort(World, "NULL_DATA") ELSE World
         B == IF x THEN extract(D, "a") ELSE D
     IN /\ Apply(forward(B, "a"))
        /\ log' = Append(log, [node |-> n, removed |-> x, empty |-> FALSE])
  /\ op' = [op EXCEPT !.name = "loop"]
  /\ calls' = calls + 1
  /\ UNCHANGED key

NextLoop ==
  \/ LoopPosition
  \/ LoopEnter
  \/ \E x \in BOOLEAN : LoopTurn(x)

SpecLoop == InitLoop /\ [][NextLoop]_vars

\* C11: traversal closure: on a list of N >= 1 nodes a fresh iterator, after
\* mark_cycle_pt(), has cycled_list() false before the first forward() and
\* after each of the first N - 1 calls, and true after the N-th; on an empty
\* list cycled_list() is true at once.
C11_TraversalClosure ==
  /\ (op.name = "init" /\ last[SRC] = NULL) => cycled_list(World, "a")
  /\ ( /\ InLoop
       /\ \A j \in 1..Len(log) : ~log[j].removed
       /\ it["a"].cycle_pt = First(World, SRC) )
     => /\ err = OK
        /\ Len(log) <= Len(Order(World, SRC))
        /\ cycled_list(World, "a") <=> (Len(log) = Len(Order(World, SRC)))

C11_Witness ==
  /\ InLoop
  /\ \A j \in 1..Len(log) : ~log[j].removed
  /\ it["a"].cycle_pt = First(World, SRC)
  /\ Len(log) = 3
  /\ Len(Order(World, SRC)) = 3
  /\ cycled_list(World, "a")

\* C18: deletion-safe traversal: the loop, whose body extracts any of the
\* elements it is handed (none, some or all of them, the first one, which is
\* the cycle point, and the last one of the list included), ends after
\* having been handed every element of the list once, in forward order from
\* the element it was entered on; if the body extracts every element, the
\* length() elements are extracted and the list ends empty.
C18_DeletionSafeTraversal ==
  InLoop =>
    LET N == op.arg IN
    /\ err = OK
    /\ Len(log) <= N
    /\ \A j \in 1..Len(log) :
         log[j].node = ((log[1].node - 1 + (j - 1)) % N) + 1
    /\ cycled_list(World, "a") <=> (Len(log) = N)
    /\ (cycled_list(World, "a") /\ \A j \in 1..Len(log) : log[j].removed)
       => /\ empty(World, SRC)
          /\ Cardinality({j \in 1..Len(log) : log[j].removed}) = N

C18_Witness ==
  /\ InLoop
  /\ cycled_list(World, "a")
  /\ Len(log) = 3
  /\ log[1].node = 1
  /\ log[1].removed
  /\ ~log[2].removed
  /\ log[3].removed
  /\ Order(World, SRC) = <<2>>

\* ---------------------------------------------------------------- clear
\* Links are appended to the empty list L1 and the list is cleared at any
\* time; a deleted link may be allocated and appended again.
Clear ==
  /\ err = OK
  /\ calls < MaxNodes + MaxOps
  /\ LET R == internal_clear(World, SRC)
     IN /\ Apply(R.S)
        /\ log' = R.seen
  /\ op' = Call("clear", NONE, NONE, NULL)
  /\ calls' = calls + 1
  /\ UNCHANGED key

NextClear ==
  \/ \E n \in Nodes : AddToEnd(n)
  \/ Clear

SpecClear == InitKeys /\ [][NextClear]_vars

\* C12: round-trip emptiness: clear() of a list built by N appends leaves the
\* list empty with length() = 0, and has called the callback exactly N
\* times, once for each appended node and for no other.
C12_RoundTripEmptiness ==
  [][Clear =>
       LET w == Order(World, SRC) IN
       /\ err' = OK
       /\ empty(World', SRC)
       /\ length(World', SRC).count = 0
       /\ Len(log') = Len(w)
       /\ \A n \in Nodes :
            Cardinality({j \in 1..Len(log') : log'[j].node = n})
              = IF n \in Range(w) THEN 1 ELSE 0]_vars

C12_Witness ==
  /\ op.name = "clear"
  /\ Len(log) >= 3
  /\ last[SRC] = NULL

\* C13: clear() makes the list empty before the first call of the callback,
\* so that every call sees is_empty() true; the callback is called on the
\* nodes in forward order, from the former last->next to the former last,
\* after which the walk ends.
C13_ClearOrdering ==
  [][Clear =>
       LET w == Order(World, SRC) IN
       /\ err' = OK
       /\ [j \in 1..Len(log') |-> log'[j].node] = w
       /\ \A j \in 1..Len(log') : log'[j].empty
       /\ w # <<>> => log'[Len(log')].node = last[SRC]]_vars

C13_Witness ==
  /\ op.name = "clear"
  /\ Len(log) >= 2
  /\ log[1].empty
  /\ log[1].node # log[2].node

\* ---------------------------------------------------------------- length
\* Iterators a and b on L1 = 1..k are moved about and marked and extract
\* their elements; length() is called at any time.
Length ==
  /\ err = OK
  /\ LET N == length(World, SRC)
     IN /\ Apply(N.S)
        /\ op' = Call("length", NONE, NONE, N.count)
  /\ UNCHANGED <<key, calls, log>>

InitLength ==
  \E k \in 0..MaxNodes :
    /\ LET S == set_to_list(set_to_list(TwoLists(k, k), "a", SRC), "b", SRC)
       IN /\ nxt = S.nxt /\ prv = S.prv /\ last = S.last /\ it = S.it
          /\ err = S.err
    /\ key = [n \in Nodes |-> 1]
    /\ op = Call("init", NONE, NONE, NULL)
    /\ calls = 0
    /\ log = <<>>

NextLength ==
  \/ \E c \in XCursors : Forward(c) \/ Backward(c) \/ MarkCyclePt(c) \/ Extract(c)
  \/ Length

SpecLength == InitLength /\ [][NextLength]_vars

\* C14: length() returns the number of nodes linked in the list, 0 for an
\* empty list, and writes nothing: last, every link and every existing
\* iterator are as before the call.
C14_LengthPure ==
  [][(Length /\ WellFormed(World, SRC)) =>
       /\ err' = OK
       /\ op'.arg = Cardinality(Chain(World, SRC))
       /\ last[SRC] = NULL => op'.arg = 0
       /\ nxt' = nxt /\ prv' = prv /\ last' = last /\ it' = it]_vars

C14_Witness ==
  /\ op.name = "length"
  /\ op.arg = 2
  /\ calls = 2
  /\ it["a"].current = NULL
  /\ it["b"].cycle_pt # NULL

\* ---------------------------------------------------------------- errors of the iterator calls
\* C15: exchange() stops the program whenever at least one of the two
\* current elements is unset and both lists are non-empty, whether one or
\* both are unset: it does not return and relinks nothing.
C15_ExchangeUnset ==
  [][\A c, d \in MCursors :
       ( /\ Exchange(c, d)
         /\ it[c].current = NULL \/ it[d].current = NULL
         /\ ~empty(World, it[c].list)
         /\ ~empty(World, it[d].list) )
       => /\ err' = "DONT_EXCHANGE_DELETED"
          /\ nxt' = nxt /\ prv' = prv /\ last' = last]_vars

\* Iterators a, b and c on L1 = 1..k are moved about; then up to MaxOps
\* calls extract an element or assign a sublist to L2.
NextRange ==
  \E c \in MCursors :
    \/ Forward(c)
    \/ Backward(c)
    \/ Extract(c)
    \/ \E d \in MCursors : AssignToSublist(DST, c, d)

SpecRange == InitMulti /\ [][NextRange]_vars

C17_NonEmptyDestination ==
  [][\A c, d \in MCursors :
       (AssignToSublist(DST, c, d) /\ ~empty(World, DST))
       => /\ err' = "LIST_NOT_EMPTY"
          /\ nxt' = nxt /\ prv' = prv /\ last' = last /\ it' = it]_vars

C17_Witness ==
  /\ op.name = "assign_to_sublist"
  /\ err = "LIST_NOT_EMPTY"
  /\ op.it # op.other
  /\ it[op.it].current \in Chain(World, SRC)
  /\ it[op.other].current \in Chain(World, SRC)

\* ---------------------------------------------------------------- moving past a removed neighbour
\* Iterators a and b on L1 = 1..k are moved about; one extracts its element;
\* then the other one moves.  op.arg keeps the neighbour the moving iterator
\* had cached on entry.
ForwardPast(x) ==
  /\ err = OK
  /\ op.name = "extract"
  /\ x # op.it
  /\ Apply(forward(World, x))
  /\ op' = Call("forward", x, op.it, it[x].next)
  /\ UNCHANGED <<key, calls, log>>

BackwardPast(x) ==
  /\ err = OK
  /\ op.name = "extract"
  /\ x # op.it
  /\ Apply(backward(World, x))
  /\ op' = Call("backward", x, op.it, it[x].prev)
  /\ UNCHANGED <<key, calls, log>>

NextSibling ==
  \E c \in XCursors :
    \/ Forward(c)
    \/ Backward(c)
    \/ MarkCyclePt(c)
    \/ Extract(c)
    \/ ForwardPast(c)
    \/ BackwardPast(c)

SpecSibling == InitSublist /\ [][NextSibling]_vars

\* Iterator x is on a node of its well-formed list.
OnList(x) ==
  /\ WellFormed(World, it[x].list)
  /\ it[x].current \in Chain(World, it[x].list)

\* C19: moving past a sibling's removal: when iterator x is on a node n and
\* another iterator has extracted the forward (backward) neighbour of n,
\* which x still has cached as next (prev), x.forward() (x.backward())
\* moves x to the node that now follows (precedes) n in the list, not to
\* the removed node, and the prev and next x has cached after the move are
\* the links of its new current element.
C19_MovePastRemoval ==
  [][\A x \in XCursors :
       /\ ( /\ ForwardPast(x)
            /\ OnList(x)
            /\ it[x].next # NULL
            /\ Unlinked(it[x].next) )
          => /\ err' = OK
             /\ it'[x].current = nxt[it[x].current]
             /\ it'[x].current # it[x].next
             /\ it'[x].current \in Chain(World, it[x].list)
             /\ it'[x].prev = prv[it'[x].current]
             /\ it'[x].prev = it[x].current
             /\ it'[x].next = nxt[it'[x].current]
       /\ ( /\ BackwardPast(x)
            /\ OnList(x)
            /\ it[x].prev # NULL
            /\ Unlinked(it[x].prev) )
          => /\ err' = OK
             /\ it'[x].current = prv[it[x].current]
             /\ it'[x].current # it[x].prev
             /\ it'[x].current \in Chain(World, it[x].list)
             /\ it'[x].next = nxt[it'[x].current]
             /\ it'[x].next = it[x].current
             /\ it'[x].prev = prv[it'[x].current]]_vars

C19_Witness ==
  /\ op.name = "forward"
  /\ err = OK
  /\ op.arg # NULL
  /\ Unlinked(op.arg)
  /\ it[op.it].current \in Chain(World, SRC)
  /\ it[op.it].current # it[op.it].prev
  /\ it[op.other].current = NULL

\* ---------------------------------------------------------------- sublist passing the end of the list
\* C20: when the range of assign_to_sublist() passes the last node of the
\* source without being the whole list (the start is after the end in
\* forward order, or the end is the last node), the source's last becomes
\* the node before the start, the source keeps the nodes outside the range
\* in their order in a well-formed list, and the last of the destination is
\* the end iterator's node.
C20_RangePastTail ==
  [][\A c, d \in XCursors :
       (/\ AssignToSublist(DST, c, d)
        /\ last[DST] = NULL
        /\ it[c].list = SRC /\ it[d].list = SRC
        /\ it[c].current \in Chain(World, SRC)
        /\ it[d].current \in Chain(World, SRC)
        /\ LET w == Order(World, SRC)
               i == Pos(w, it[c].current)
               j == Pos(w, it[d].current)
           IN /\ i > j \/ j = Len(w)
              /\ (IF i <= j THEN j - i + 1 ELSE Len(w) - i + 1 + j) < Len(w))
       => LET w == Order(World, SRC)
              i == Pos(w, it[c].current)
              j == Pos(w, it[d].current)
          IN /\ err' = OK
             /\ last'[SRC] = w[i - 1]
             /\ Order(World', SRC) = IF i <= j THEN SubSeq(w, 1, i - 1)
                                               ELSE SubSeq(w, j + 1, i - 1)
             /\ WellFormed(World', SRC)
             /\ Order(World', DST) = IF i <= j THEN SubSeq(w, i, j)
                                               ELSE SubSeq(w, i, Len(w))
                                                    \o SubSeq(w, 1, j)
             /\ last'[DST] = w[j]
             /\ WellFormed(World', DST)]_vars

\* C20 witness: [A,B,C,D] with the start on C and the end on A has become
\* [B] and [C,D,A].
C20_Witness ==
  /\ op.name = "assign_to_sublist"
  /\ err = OK
  /\ Order(World, SRC) = <<2>>
  /\ Order(World, DST) = <<3, 4, 1>>

\* C21: end states of the two iterators of assign_to_sublist(): if the range
\* is the whole source list, the source is empty and both iterators have
\* current, prev and next unset; otherwise both have current unset, prev on
\* the node before the range and next on the node after it, these two nodes
\* are linked to each other, and a forward() on either iterator lands on the
\* node after the range.
C21_SublistEndStates ==
  [][\A c, d \in XCursors :
       (/\ AssignToSublist(DST, c, d)
        /\ last[DST] = NULL
        /\ it[c].list = SRC /\ it[d].list = SRC
        /\ it[c].current \in Chain(World, SRC)
        /\ it[d].current \in Chain(World, SRC))
       => LET w == Order(World, SRC)
              i == Pos(w, it[c].current)
              j == Pos(w, it[d].current)
              n == IF i <= j THEN j - i + 1 ELSE Len(w) - i + 1 + j
              before == w[((i + Len(w) - 2) % Len(w)) + 1]
              after == w[(j % Len(w)) + 1]
          IN /\ err' = OK
             /\ IF n = Len(w)
                THEN /\ empty(World', SRC)
                     /\ \A e \in {c, d} :
                          /\ it'[e].current = NULL
                          /\ it'[e].prev = NULL
                          /\ it'[e].next = NULL
                ELSE /\ nxt'[before] = after
                     /\ prv'[after] = before
                     /\ \A e \in {c, d} :
                          /\ it'[e].current = NULL
                          /\ it'[e].prev = before
                          /\ it'[e].next = after
                          /\ LET F == forward(World', e)
                             IN F.err = OK /\ F.it[e].current = after]_vars

\* C21 witness: [A,B,C,D] with the start on B and the end on C: both
\* iterators are unset between A and D.
C21_Witness ==
  /\ op.name = "assign_to_sublist"
  /\ err = OK
  /\ op.it # op.other
  /\ \A e \in {op.it, op.other} :
       it[e].current = NULL /\ it[e].prev = 1 /\ it[e].next = 4
  /\ nxt[1] = 4
  /\ prv[4] = 1

\* ---------------------------------------------------------------- conservation of the nodes
\* C22: sort() neither loses nor duplicates nodes: the nodes linked in the
\* list after sort(cmp) are those linked before it, length() is unchanged,
\* the list is one well-formed circular chain whose last is a greatest
\* element under cmp, and an empty list stays empty.
C22_SortConservesNodes ==
  [][op'.name = "sort" =>
       LET before == Chain(World, SRC)
           w == Order(World', SRC)
       IN /\ err' = OK
          /\ Range(w) = before
          /\ length(World', SRC).count = length(World, SRC).count
          /\ Len(w) = Cardinality(before)
          /\ WellFormed(World', SRC)
          /\ \A n \in Nodes \ before : nxt'[n] = NULL /\ prv'[n] = NULL
          /\ \A n \in before : comparator(n, last'[SRC]) <= 0
          /\ empty(World, SRC) => empty(World', SRC)]_vars

\* C22 witness: sort has moved the link appended first to the end of a list
\* of three.
C22_Witness ==
  /\ op.name = "sort"
  /\ err = OK
  /\ Len(Order(World, SRC)) = 3
  /\ last[SRC] = 1
  /\ key[1] > key[3]

\* ---------------------------------------------------------------- link consistency on one list
\* The list L1 = 1..k of links with keys; iterators a and b are constructed
\* on it and moved about; then up to MaxOps calls insert a link by
\* add_sorted, sort the list, exchange a and b, or assign a sublist to L2.
InitLinks ==
  \E k \in 0..MaxNodes :
    /\ LET S == set_to_list(set_to_list(TwoLists(k, k), "a", SRC), "b", SRC)
       IN /\ nxt = S.nxt /\ prv = S.prv /\ last = S.last /\ it = S.it
          /\ err = S.err
    /\ key \in [Nodes -> 1..MaxKey]
    /\ op = Call("init", NONE, NONE, NULL)
    /\ calls = 0
    /\ log = <<>>

NextLinks ==
  \/ \E c \in XCursors : Forward(c) \/ Backward(c)
  \/ \E n \in Nodes : calls < MaxOps /\ AddSorted(n)
  \/ calls < MaxOps /\ Sort
  \/ \E c, d \in XCursors : Exchange(c, d)
  \/ \E c, d \in XCursors : AssignToSublist(DST, c, d)

SpecLinks == InitLinks /\ [][NextLinks]_vars

\* The sequence w without the node n.
Without(w, n) == SelectSeq(w, LAMBDA m : m # n)

\* C23: link consistency on one list: after every add_sorted, sort,
\* assign_to_sublist and exchange of two iterators of the list that returns,
\* every node n of the non-empty list has n.next.prev = n and
\* n.prev.next = n with no link unset, last is a node of the chain, and the
\* chain holds the nodes inserted and not removed; add_sorted makes length()
\* one greater and keeps the nodes present before in their order.
C23_LinkConsistency ==
  [][(op'.name \in {"add_sorted", "sort", "exchange", "assign_to_sublist"}
      /\ err' = OK)
     => LET before == Order(World, SRC)
            after == Order(World', SRC)
        IN /\ WellFormed(World', SRC)
           /\ \A n \in Range(after) :
                /\ nxt'[n] # NULL /\ prv'[n] # NULL
                /\ prv'[nxt'[n]] = n /\ nxt'[prv'[n]] = n
           /\ last'[SRC] # NULL => last'[SRC] \in Range(after)
           /\ op'.name = "add_sorted"
              => /\ Range(after) = Range(before) \cup {op'.arg}
                 /\ length(World', SRC).count = length(World, SRC).count + 1
                 /\ Without(after, op'.arg) = before
           /\ op'.name \in {"sort", "exchange"}
              => Range(after) = Range(before)
           /\ op'.name = "assign_to_sublist"
              => /\ Chain(World', DST) \subseteq Range(before)
                 /\ Range(after) = Range(before) \ Chain(World', DST)]_vars

====
